---- MODULE Spec2Model ----
(***************************************************************************)
(* hot-config: a directory-based configuration loader whose store object   *)
(* is cleared and repopulated in place on every reload.                    *)
(*                                                                         *)
(* The model follows the latest revision of the module (the one with the   *)
(* dryRun option): the process-wide store, clear(), load() with its four   *)
(* waterfall stages, the built-in file parsers and toDotPath.  The library *)
(* calls the module makes (neo-async waterfall/map, lodash merge/set/      *)
(* camelCase, find.file, fs.readFile, setImmediate) are modelled by what   *)
(* they do at the call sites.                                              *)
(***************************************************************************)
EXTENDS Integers, Sequences, FiniteSets, TLC

(***************************************************************************)
(* JavaScript values.  Every value is a record [t, v]: t is the type tag.  *)
(* A parsed document is a pure tree (Obj holds a function from keys to     *)
(* values); an object that lives in memory is a heap cell addressed by a   *)
(* Ref, so that identity and in-place mutation are part of the model.      *)
(***************************************************************************)
Undef == [t |-> "undef", v |-> 0]

Null == [t |-> "null", v |-> 0]

Num(n) == [t |-> "num", v |-> n]

Arr(s) == [t |-> "arr", v |-> s]

Obj(m) == [t |-> "obj", v |-> m]

Ref(i) == [t |-> "ref", v |-> i]

EmptyMap == [k \in {} |-> Undef]

EmptyObj == Obj(EmptyMap)

\* m with key k bound to c (assignment m[k] = c)
Put(m, k, c) == [x \in (DOMAIN m) \cup {k} |-> IF x = k THEN c ELSE m[x]]

\* a one-key / two-key object literal
Obj1(k, a) == Obj(Put(EmptyMap, k, a))

Obj2(k1, a1, k2, a2) == Obj(Put(Put(EmptyMap, k1, a1), k2, a2))

\* JS truthiness of a parsed value (value && ...)
Truthy(x) ==
  CASE x.t \in {"undef", "null"} -> FALSE
    [] x.t = "num" -> x.v # 0
    [] OTHER -> TRUE

\* property read x[k] on a value that is not undefined/null
GetProp(x, k) ==
  IF x.t = "obj" /\ k \in DOMAIN x.v THEN x.v[k] ELSE Undef

(***************************************************************************)
(* lodash merge, as used by the profile stage: _.merge({}, default, own).  *)
(***************************************************************************)
\* the property name of array index i (1-based here, 0-based in JS)
IndexKey(i) ==
  CASE i = 1 -> "0" [] i = 2 -> "1" [] i = 3 -> "2" [] OTHER -> "3"

\* an array seen as an object with index keys
ArrAsMap(s) ==
  [k \in {IndexKey(i) : i \in DOMAIN s} |->
     s[CHOOSE i \in DOMAIN s : IndexKey(i) = k]]

RECURSIVE baseMerge(_, _)

\* baseMergeDeep: the value an object- or array-valued source property
\* leaves under its key, given the target's current value there
baseMergeDeep(objValue, srcValue) ==
  IF srcValue.t = "arr"
  THEN baseMerge(IF objValue.t = "arr" THEN objValue ELSE Arr(<<>>), srcValue)
  ELSE baseMerge(IF objValue.t \in {"obj", "arr"} THEN objValue ELSE EmptyObj,
                 srcValue)

\* assignMergeValue / the scalar branch of baseMerge: an undefined source
\* value never overwrites an existing property
mergeProp(has, objValue, srcValue) ==
  IF srcValue.t \in {"obj", "arr"} THEN baseMergeDeep(objValue, srcValue)
  ELSE IF srcValue = Undef /\ has THEN objValue
  ELSE srcValue

\* baseMerge(object, source): source merged recursively into object;
\* a source that is not an object or array has no own keys to merge
baseMerge(object, source) ==
  CASE source.t = "arr" /\ object.t = "arr" ->
         LET n == IF Len(source.v) > Len(object.v)
                  THEN Len(source.v) ELSE Len(object.v)
         IN Arr([i \in 1..n |->
                  IF i > Len(source.v) THEN object.v[i]
                  ELSE mergeProp(i <= Len(object.v),
                                 IF i <= Len(object.v) THEN object.v[i] ELSE Undef,
                                 source.v[i])])
    [] source.t \in {"obj", "arr"} /\ object.t \in {"obj", "arr"} ->
         LET src == IF source.t = "arr" THEN ArrAsMap(source.v) ELSE source.v
             obj == IF object.t = "arr" THEN ArrAsMap(object.v) ELSE object.v
         IN Obj([k \in (DOMAIN obj) \cup (DOMAIN src) |->
                  IF k \notin DOMAIN src THEN obj[k]
                  ELSE mergeProp(k \in DOMAIN obj,
                                 IF k \in DOMAIN obj THEN obj[k] ELSE Undef,
                                 src[k])])
    [] OTHER -> object

\* _.merge({}, defaultValue, specificValue)
merge(defaultValue, specificValue) ==
  baseMerge(baseMerge(EmptyObj, defaultValue), specificValue)

(***************************************************************************)
(* The heap.  heap[i] is the property map of object i; a property holds a  *)
(* scalar, an array value or a Ref to another object.  Object 1 is the     *)
(* store created when the module is loaded.                                *)
(***************************************************************************)
RECURSIVE Alloc(_, _), AllocProps(_, _, _, _)

\* a fresh copy of tree val in heap h: [h |-> the new heap, c |-> its cell]
Alloc(h, val) ==
  IF val.t # "obj" THEN [h |-> h, c |-> val]
  ELSE LET id == Len(h) + 1
       IN [h |-> AllocProps(Append(h, EmptyMap), id, val.v, DOMAIN val.v),
           c |-> Ref(id)]

AllocProps(h, id, m, ks) ==
  IF ks = {} THEN h
  ELSE LET k == CHOOSE y \in ks : TRUE
           r == Alloc(h, m[k])
       IN AllocProps([r.h EXCEPT ![id] = Put(@, k, r.c)], id, m, ks \ {k})

RECURSIVE Tree(_, _)

\* the tree a cell stands for: what a deep comparison of the value sees
Tree(h, c) ==
  IF c.t = "ref" THEN Obj([k \in DOMAIN h[c.v] |-> Tree(h, h[c.v][k])]) ELSE c

RECURSIVE baseSet(_, _, _, _)

RECURSIVE baseSetFresh(_, _, _, _)
\* a _.set that puts a new {} at every level of the path above the last,
\* also where the level holds an object already
baseSetFresh(h, id, path, c) ==
  LET k == Head(path) IN
  IF Len(path) = 1 THEN [h EXCEPT ![id] = Put(@, k, c)]
  ELSE LET nid == Len(h) + 1
       IN baseSetFresh(Append([h EXCEPT ![id] = Put(@, k, Ref(nid))], EmptyMap),
                       nid, Tail(path), c)

\* _.set(object, path, value): walks path from object id, creating a fresh
\* {} wherever the next level is not an object, and assigns at the last key
baseSet(h, id, path, c) ==
  LET k == Head(path) IN
  IF Len(path) = 1 THEN [h EXCEPT ![id] = Put(@, k, c)]
  ELSE LET objValue == IF k \in DOMAIN h[id] THEN h[id][k] ELSE Undef
       IN IF objValue.t = "ref" THEN baseSet(h, objValue.v, Tail(path), c)
          ELSE LET nid == Len(h) + 1
               IN baseSet(Append([h EXCEPT ![id] = Put(@, k, Ref(nid))], EmptyMap),
                          nid, Tail(path), c)

RECURSIVE Reach(_, _)
\* the objects reachable from a cell
Reach(h, c) ==
  IF c.t # "ref" THEN {}
  ELSE {c.v} \cup UNION {Reach(h, h[c.v][k]) : k \in DOMAIN h[c.v]}

\* a clear() that also empties every object nested in the store
deleteKeysDeep(h, id) ==
  [i \in DOMAIN h |-> IF i \in Reach(h, Ref(id)) THEN EmptyMap ELSE h[i]]

\* the loop of clear(): delete store[key] for every key of the object
deleteKeys(h, id) == [h EXCEPT ![id] = EmptyMap]

(***************************************************************************)
(* File paths.  A name is the string of one path segment; camelCase is     *)
(* lodash's, given on the names the directories below use.                 *)
(***************************************************************************)
camelCase(n) ==
  CASE n = "movie-catalog" -> "movieCatalog"
    [] n = "conf-1" -> "conf1"
    [] n = "conf_1" -> "conf1"
    [] OTHER -> n

\* applying a path normalizer, named by the function it is
normalize(fn, n) == IF fn = "camelCase" THEN camelCase(n) ELSE n

\* a toDotPath that keeps the file's own name only (path.basename)
toDotPathFlat(filepath, opts) ==
  LET pathNormalizer == IF opts = "undefined" THEN "camelCase" ELSE opts
      segs == SelectSeq(filepath, LAMBDA n : n # "")
  IN << normalize(pathNormalizer, segs[Len(segs)]) >>

\* toDotPath(filepath, opts): opts defaults to {pathNormalizer: _.camelCase};
\* extension dropped, empty segments dropped, every segment normalized,
\* joined with dots.  The joined string is given as its sequence of
\* segments, which is how _.set reads it back.
toDotPath(filepath, opts) ==
  LET pathNormalizer == IF opts = "undefined" THEN "camelCase" ELSE opts
      segs == SelectSeq(filepath, LAMBDA n : n # "")
  IN [i \in 1..Len(segs) |-> normalize(pathNormalizer, segs[i])]

(***************************************************************************)
(* The file system the loads run against.  A file is its path relative to  *)
(* the loaded directory (extension left out) and what reading and decoding *)
(* it gives: "EACCES" (the read fails), "garbage" (the decoder throws) or  *)
(* "doc" with the decoded value.                                           *)
(***************************************************************************)
File(rel, k, v) == [rel |-> rel, k |-> k, v |-> v]

Doc(rel, v) == File(rel, "doc", v)

Dirs == {"origin", "changed", "broken", "locked", "empty", "missing", "blank",
         "collide", "lists", "dashed", "over", "under"}

\* the files find.file yields for a directory, in the order it yields them
Files(dir) ==
  CASE dir = "origin" ->
         << Doc(<<"conf1">>, Obj1("default", Obj2("str", Num(1), "num", Num(12)))),
            Doc(<<"db", "conf2">>,
                Obj2("default", Obj2("flt", Num(15), "port", Num(80)),
                     "production", Obj1("flt", Num(16)))) >>
    [] dir = "changed" ->
         << Doc(<<"conf1">>, Obj2("default", Obj1("num", Num(15)),
                                  "production", Obj1("num", Num(16)))) >>
    [] dir = "broken" ->
         << Doc(<<"conf3">>, Obj1("default", Obj1("num", Num(3)))),
            File(<<"conf4">>, "garbage", Undef) >>
    [] dir = "locked" ->
         << File(<<"conf5">>, "EACCES", Undef),
            File(<<"conf6">>, "garbage", Undef) >>
    [] dir = "blank" ->
         << Doc(<<"conf7">>, Undef) >>
    [] dir = "collide" ->
         << Doc(<<"conf-1", "x">>, Obj1("default", Obj1("num", Num(1)))),
            Doc(<<"conf_1", "x">>, Obj1("default", Obj1("num", Num(2)))) >>
    [] dir = "over" ->
         << Doc(<<"db">>, Obj1("default", Obj1("host", Num(1)))),
            Doc(<<"db", "conf2">>, Obj1("default", Obj1("port", Num(80)))) >>
    [] dir = "under" ->
         << Doc(<<"api", "v1">>, Obj1("default", Obj1("num", Num(3)))),
            Doc(<<"api">>, Obj1("default", Obj1("str", Num(1)))) >>
    [] dir = "dashed" ->
         << Doc(<<"conf-1">>, Obj1("default", Obj1("num", Num(1)))) >>
    [] dir = "lists" ->
         << Doc(<<"db", "conf8">>,
                Obj2("default", Obj2("ports", Arr(<<Num(1), Num(2), Num(3)>>),
                                     "num", Num(1)),
                     "production", Obj1("ports", Arr(<<Num(9)>>)))) >>
    [] OTHER -> << >>

\* whether find.file can list the directory at all
Listable(dir) == dir # "missing"

\* the values callers pass as opts.pathNormalizer when they load dir
\* ("undefined": the option is left out; "identity": (n) => n); a caller
\* passes its own normalizer for names the default one would change
PathNormalizers(dir) ==
  IF dir = "dashed" THEN {"undefined", "identity"} ELSE {"undefined"}

(***************************************************************************)
(* Errors handed to callbacks.                                             *)
(***************************************************************************)
NoError == [kind |-> "null", file |-> << >>, cause |-> ""]

\* the error fs.readFile reports
ReadError(file) == [kind |-> "Error", file |-> file, cause |-> "EACCES"]

\* a ParserError whose message leaves the file out
ParserErrorNoFile(error, file) ==
  [kind |-> "ParserError", file |-> << >>, cause |-> error]

\* new ParserError(error, file): message `${error} in "${file}"`
ParserError(error, file) == [kind |-> "ParserError", file |-> file, cause |-> error]

(***************************************************************************)
(* Bounds of the model.                                                    *)
(***************************************************************************)
\* number of load() calls made during the run
MaxLoads == 2

Loads == 1..MaxLoads

(***************************************************************************)
(* State.                                                                  *)
(***************************************************************************)
VARIABLES
  alive,     \* the node process has not died of an uncaught exception
  env,       \* process.env.NODE_ENV ("undefined" when not set)
  disk,      \* the directories a caller may load
  heap,      \* the objects in memory
  store,     \* the module's binding `store`
  held,      \* the reference a client took from the module before any load
  running,   \* the load whose stage 3/4 code holds the thread, 0 when none
  pc,        \* per load: where its waterfall stands
  opts,      \* per load: the directory and the resolved options
  fstate,    \* per load: per discovered file, where its read/parse stands
  configs,   \* per load: the solved configs [path, value] of stage 3
  target,    \* per load: the object stage 4 writes into
  idx,       \* per load: the next config stage 4 will _.set (0: not begun)
  cb,        \* per load: what the completion callback has received
  snap,      \* per load: the store's tree when load() was called
  dirty,     \* per load: clear() or another load wrote the store since
  lastWrite, \* the load that last cleared the store to fill it, 0: clear()
  left,      \* per load: the tree its target held when it called back
  fcb        \* per load, per file: the calls of the callback given to the parser

vars == << alive, env, disk, heap, store, held, running, pc, opts, fstate,
           configs, target, idx, cb, snap, dirty, lastWrite, left, fcb >>

NoCall == [n |-> 0, err |-> NoError, res |-> Undef]

\* the callback loadFile gives the parser has not been called
NoFileCall == [n |-> 0, err |-> NoError]

NoOpts == [dir |-> "", dryRun |-> FALSE, defaultProfile |-> "default",
           profile |-> "undefined", pathNormalizer |-> "undefined"]

\* what a deep comparison of the store sees
StoreTree == Tree(heap, store)

\* the state after the module is loaded, in a process started with one of
\* the environments E over the directories D
InitWith(D, E) ==
  /\ alive = TRUE
  /\ env \in E
  /\ disk = D
  /\ heap = << EmptyMap >>
  /\ store = Ref(1)
  /\ held = Ref(1)
  /\ running = 0
  /\ pc = [l \in Loads |-> "idle"]
  /\ opts = [l \in Loads |-> NoOpts]
  /\ fstate = [l \in Loads |-> << >>]
  /\ configs = [l \in Loads |-> << >>]
  /\ target = [l \in Loads |-> Undef]
  /\ idx = [l \in Loads |-> 0]
  /\ cb = [l \in Loads |-> NoCall]
  /\ snap = [l \in Loads |-> EmptyObj]
  /\ dirty = [l \in Loads |-> FALSE]
  /\ lastWrite = 0
  /\ left = [l \in Loads |-> Undef]
  /\ fcb = [l \in Loads |-> << >>]

\* a production process reloading its configuration: two directories that
\* load, one with a file that does not parse, one that cannot be listed
Init == InitWith({"origin", "changed", "broken", "missing"}, {"production"})

\* a production process over directories whose loads fail in every way
InitFail ==
  InitWith({"changed", "broken", "locked", "blank", "missing"}, {"production"})

\* a production process over directories whose names and values exercise
\* the path normalizer and the merge of profiles
InitPaths == InitWith({"dashed", "lists", "missing"}, {"production"})

\* a production process over directories that shape the tree: nested
\* directories, names that normalize alike, a directory without files
InitTree == InitWith({"collide", "origin", "empty", "missing"}, {"production"})

\* a production process over directories that hold a file and a directory
\* of the same name: the file found first, the file found last
InitNest == InitWith({"over", "under", "missing"}, {"production"})

\* a new turn of the event loop can start: no stage 3/4 code is running
Idle == alive /\ running = 0

\* load l was called and its callback has not been called with a result
Watching(l) == pc[l] \in {"listing", "loading", "commit", "failed"}

\* the loads other than l see a write to the store
Dirtied(l) == [k \in Loads |-> IF k # l /\ Watching(k) THEN TRUE ELSE dirty[k]]

\* load l has ended: its snapshot is dropped
Forget(l) ==
  /\ snap' = [snap EXCEPT ![l] = EmptyObj]
  /\ dirty' = [dirty EXCEPT ![l] = FALSE]

(***************************************************************************)
(* clear()                                                                 *)
(***************************************************************************)
\* a clear() that deletes nothing
clearKeepsKeys(h, s) == [heap |-> h, store |-> s]

\* a clear() that rebinds store to a new empty object (store = {})
clearRebinds(h, s) == [heap |-> Append(h, EmptyMap), store |-> Ref(Len(h) + 1)]

\* clear(): every key of the store object is deleted; the binding stays.
\* [heap |-> the heap, store |-> the binding] after the call
clear(h, s) == [heap |-> deleteKeys(h, s.v), store |-> s]

\* a clear() that also ends the loads in progress with an error
ClearCancelsPending ==
  /\ Idle
  /\ LET r == clear(heap, store) IN heap' = r.heap /\ store' = r.store
  /\ dirty' = Dirtied(0)
  /\ lastWrite' = 0
  /\ cb' = [l \in Loads |->
              IF pc[l] \in {"listing", "loading"}
              THEN [n |-> cb[l].n + 1, err |-> ReadError(<< >>), res |-> Undef]
              ELSE cb[l]]
  /\ UNCHANGED << alive, env, disk, held, running, pc, opts, fstate, configs,
                  target, idx, snap, left, fcb >>

\* a client calls clear()
Clear ==
  /\ Idle
  /\ LET r == clear(heap, store) IN heap' = r.heap /\ store' = r.store
  /\ dirty' = Dirtied(0)
  /\ lastWrite' = 0
  /\ UNCHANGED << alive, env, disk, held, running, pc, opts, fstate, configs,
                  target, idx, cb, snap, left, fcb >>

(***************************************************************************)
(* load(dir, opts, done)                                                   *)
(***************************************************************************)
\* a load() that clears the store as soon as it is called
LoadClearsFirst(l, dir, dryRun) ==
  /\ Idle
  /\ pc[l] = "idle"
  /\ \A k \in Loads : k < l => pc[k] # "idle"
  /\ dir \in disk
  /\ \E pathNormalizer \in PathNormalizers(dir) :
       opts' = [opts EXCEPT ![l] = [dir |-> dir, dryRun |-> dryRun,
                                   defaultProfile |-> "default", profile |-> env,
                                   pathNormalizer |-> pathNormalizer]]
  /\ pc' = [pc EXCEPT ![l] = "listing"]
  /\ snap' = [snap EXCEPT ![l] = StoreTree]
  /\ dirty' = [dirty EXCEPT ![l] = FALSE]
  /\ heap' = deleteKeys(heap, store.v)
  /\ UNCHANGED << alive, env, disk, store, held, running, fstate,
                  configs, target, idx, cb, lastWrite, left, fcb >>

\* load(): the options are resolved and stage 1 asks find.file for the files
Load(l, dir, dryRun) ==
  /\ Idle
  /\ pc[l] = "idle"
  /\ \A k \in Loads : k < l => pc[k] # "idle"
  /\ dir \in disk
  /\ \E pathNormalizer \in PathNormalizers(dir) :
       opts' = [opts EXCEPT ![l] = [dir |-> dir, dryRun |-> dryRun,
                                   defaultProfile |-> "default", profile |-> env,
                                   pathNormalizer |-> pathNormalizer]]
  /\ pc' = [pc EXCEPT ![l] = "listing"]
  /\ snap' = [snap EXCEPT ![l] = StoreTree]
  /\ dirty' = [dirty EXCEPT ![l] = FALSE]
  /\ UNCHANGED << alive, env, disk, heap, store, held, running, fstate,
                  configs, target, idx, cb, lastWrite, left, fcb >>

\* stage 3 on the parsed values, in order: the config of file i is
\* value && {path, value}; its value becomes a fresh merge of the default and
\* the own profile section.  [h |-> heap, cs |-> solved configs]
RECURSIVE solve(_, _, _, _)
solve(h, files, o, i) ==
  IF i > Len(files) THEN [h |-> h, cs |-> << >>]
  ELSE LET value == files[i].v
           defaultValue == GetProp(value, o.defaultProfile)
           specificValue == GetProp(value, o.profile)
           r == Alloc(h, merge(defaultValue, specificValue))
           rest == solve(r.h, files, o, i + 1)
       IN [h |-> rest.h,
           cs |-> << [path |-> toDotPath(files[i].rel, "undefined"),
                      value |-> r.c] >> \o rest.cs]

\* stage 3 throws a TypeError: some config is not an object (value && ...
\* left the falsy parsed value in its place)
solveThrows(files) == \E i \in 1..Len(files) : ~Truthy(files[i].v)

\* stage 4 left to later turns of the event loop: the thread is given up
\* between stage 3 and the steps of stage 4
AfterMapDeferred(l) ==
  LET files == Files(opts[l].dir) IN
  IF solveThrows(files)
  THEN /\ pc' = [pc EXCEPT ![l] = "lost"]
       /\ alive' \in BOOLEAN
       /\ Forget(l)
       /\ UNCHANGED << heap, configs, running >>
  ELSE LET r == solve(heap, files, opts[l], 1) IN
       /\ heap' = r.h
       /\ configs' = [configs EXCEPT ![l] = r.cs]
       /\ pc' = [pc EXCEPT ![l] = "commit"]
       /\ UNCHANGED << alive, snap, dirty, running >>

\* The map of stage 2 has every result: stage 3 runs, and stage 4 follows
\* before any other callback of the event loop.  When stage 3 throws, the
\* exception leaves the waterfall without any callback being called.
AfterMap(l) ==
  LET files == Files(opts[l].dir) IN
  IF solveThrows(files)
  THEN /\ pc' = [pc EXCEPT ![l] = "lost"]
       /\ alive' \in BOOLEAN
       /\ Forget(l)
       /\ UNCHANGED << heap, configs, running >>
  ELSE LET r == solve(heap, files, opts[l], 1) IN
       /\ heap' = r.h
       /\ configs' = [configs EXCEPT ![l] = r.cs]
       /\ pc' = [pc EXCEPT ![l] = "commit"]
       /\ running' = l
       /\ UNCHANGED << alive, snap, dirty >>

\* a stage 2 that takes a listing without files for a failure
ListDoneEmptyFails(l) ==
  /\ Idle
  /\ pc[l] = "listing"
  /\ Listable(opts[l].dir)
  /\ LET files == Files(opts[l].dir) IN
     IF files = << >>
     THEN /\ pc' = [pc EXCEPT ![l] = "failed"]
          /\ cb' = [cb EXCEPT ![l] = [n |-> @.n + 1, err |-> ReadError(<< >>),
                                      res |-> Undef]]
          /\ UNCHANGED << alive, heap, configs, running, snap, dirty, fstate,
                          fcb >>
     ELSE /\ fstate' = [fstate EXCEPT ![l] = [i \in 1..Len(files) |-> "reading"]]
          /\ fcb' = [fcb EXCEPT ![l] = [i \in 1..Len(files) |-> NoFileCall]]
          /\ pc' = [pc EXCEPT ![l] = "loading"]
          /\ UNCHANGED << alive, heap, configs, running, snap, dirty, cb >>
  /\ UNCHANGED << env, disk, store, held, opts, target, idx, lastWrite, left >>

\* find.file calls back with the files; stage 2 starts the parser on each
ListDone(l) ==
  /\ Idle
  /\ pc[l] = "listing"
  /\ Listable(opts[l].dir)
  /\ LET files == Files(opts[l].dir) IN
     IF files = << >>
     THEN /\ AfterMap(l)
          /\ UNCHANGED << fstate, fcb >>
     ELSE /\ fstate' = [fstate EXCEPT ![l] = [i \in 1..Len(files) |-> "reading"]]
          /\ fcb' = [fcb EXCEPT ![l] = [i \in 1..Len(files) |-> NoFileCall]]
          /\ pc' = [pc EXCEPT ![l] = "loading"]
          /\ UNCHANGED << alive, heap, configs, running, snap, dirty >>
  /\ UNCHANGED << env, disk, store, held, opts, target, idx, cb, lastWrite, left >>

\* find.file cannot list the directory: it has no way to reach listDir's
\* callback; the error is thrown inside find (the process dies unless the
\* host catches it) and the waterfall never proceeds
ListFail(l) ==
  /\ Idle
  /\ pc[l] = "listing"
  /\ ~Listable(opts[l].dir)
  /\ pc' = [pc EXCEPT ![l] = "lost"]
  /\ alive' \in BOOLEAN
  /\ Forget(l)
  /\ UNCHANGED << env, disk, heap, store, held, running, opts, fstate,
                  configs, target, idx, cb, lastWrite, left, fcb >>

\* A file of load l ended with err: async.map calls its callback with the
\* first error only, the waterfall passes it to done.
MapError(l, err) ==
  IF \E j \in 1..Len(fstate[l]) : fstate[l][j] = "failed"
  THEN UNCHANGED << pc, cb >>
  ELSE /\ pc' = [pc EXCEPT ![l] = "failed"]
       /\ cb' = [cb EXCEPT ![l] = [n |-> @.n + 1, err |-> err, res |-> Undef]]

\* fs.readFile of file i calls back
ReadDone(l, i) ==
  /\ Idle
  /\ i \in 1..Len(fstate[l])
  /\ fstate[l][i] = "reading"
  /\ LET file == Files(opts[l].dir)[i] IN
     IF file.k = "EACCES"
     THEN /\ fstate' = [fstate EXCEPT ![l][i] = "failed"]
          /\ fcb' = [fcb EXCEPT ![l][i] = [n |-> @.n + 1,
                                           err |-> ReadError(file.rel)]]
          /\ MapError(l, ReadError(file.rel))
     ELSE /\ fstate' = [fstate EXCEPT ![l][i] = "parsing"]
          /\ UNCHANGED << pc, cb, fcb >>
  /\ UNCHANGED << alive, env, disk, heap, store, held, running, opts, configs,
                  target, idx, snap, dirty, lastWrite, left >>

\* The calls of the per-file callback when file i of load l decodes.  The
\* parser calls done(null, value) inside its try block: when that call is
\* the last result of the map and stage 3 throws, the exception comes back
\* to the parser's catch, which calls done(new ParserError(err, file)).
Decoded(l, i) ==
  LET files == Files(opts[l].dir) IN
  IF /\ \A j \in 1..Len(fstate[l]) : j # i => fstate[l][j] = "ok"
     /\ solveThrows(files)
  THEN [n |-> fcb[l][i].n + 2, err |-> ParserError("TypeError", files[i].rel)]
  ELSE [n |-> fcb[l][i].n + 1, err |-> NoError]

\* a map that collects the results in the order the files complete: the
\* result of the file that completes last comes last
ParseDoneCompletionOrder(l, i) ==
  /\ Idle
  /\ i \in 1..Len(fstate[l])
  /\ fstate[l][i] = "parsing"
  /\ LET file == Files(opts[l].dir)[i] IN
     IF file.k = "garbage"
     THEN /\ fstate' = [fstate EXCEPT ![l][i] = "failed"]
          /\ fcb' = [fcb EXCEPT ![l][i] =
                       [n |-> @.n + 1,
                        err |-> ParserError("YAMLException", file.rel)]]
          /\ MapError(l, ParserError("YAMLException", file.rel))
          /\ UNCHANGED << alive, heap, configs, running, snap, dirty >>
     ELSE /\ fstate' = [fstate EXCEPT ![l][i] = "ok"]
          /\ fcb' = [fcb EXCEPT ![l][i] = Decoded(l, i)]
          /\ IF \A j \in 1..Len(fstate[l]) : j # i => fstate[l][j] = "ok"
             THEN LET all == Files(opts[l].dir)
                      files == SelectSeq(all, LAMBDA f : f # file) \o << file >>
                  IN IF solveThrows(files)
                     THEN /\ pc' = [pc EXCEPT ![l] = "lost"]
                          /\ alive' \in BOOLEAN
                          /\ Forget(l)
                          /\ UNCHANGED << heap, configs, running >>
                     ELSE LET r == solve(heap, files, opts[l], 1) IN
                          /\ heap' = r.h
                          /\ configs' = [configs EXCEPT ![l] = r.cs]
                          /\ pc' = [pc EXCEPT ![l] = "commit"]
                          /\ running' = l
                          /\ UNCHANGED << alive, snap, dirty >>
             ELSE UNCHANGED << alive, heap, configs, running, pc, snap, dirty >>
          /\ UNCHANGED cb
  /\ UNCHANGED << env, disk, store, held, opts, target, idx, lastWrite, left >>

\* a map that hands its results over as soon as one file has decoded
ParseDoneFirstResult(l, i) ==
  /\ Idle
  /\ i \in 1..Len(fstate[l])
  /\ fstate[l][i] = "parsing"
  /\ LET file == Files(opts[l].dir)[i] IN
     IF file.k = "garbage"
     THEN /\ fstate' = [fstate EXCEPT ![l][i] = "failed"]
          /\ fcb' = [fcb EXCEPT ![l][i] =
                       [n |-> @.n + 1,
                        err |-> ParserError("YAMLException", file.rel)]]
          /\ MapError(l, ParserError("YAMLException", file.rel))
          /\ UNCHANGED << alive, heap, configs, running, snap, dirty >>
     ELSE /\ fstate' = [fstate EXCEPT ![l][i] = "ok"]
          /\ fcb' = [fcb EXCEPT ![l][i] = Decoded(l, i)]
          /\ IF pc[l] = "loading"
             THEN AfterMap(l)
             ELSE UNCHANGED << alive, heap, configs, running, pc, snap, dirty >>
          /\ UNCHANGED cb
  /\ UNCHANGED << env, disk, store, held, opts, target, idx, lastWrite, left >>

\* a map that counts the files that have completed, failed ones included,
\* and goes on to stage 3 when none is left in flight
ParseDoneCountsCompletions(l, i) ==
  /\ Idle
  /\ i \in 1..Len(fstate[l])
  /\ fstate[l][i] = "parsing"
  /\ LET file == Files(opts[l].dir)[i] IN
     IF file.k = "garbage"
     THEN /\ fstate' = [fstate EXCEPT ![l][i] = "failed"]
          /\ fcb' = [fcb EXCEPT ![l][i] =
                       [n |-> @.n + 1,
                        err |-> ParserError("YAMLException", file.rel)]]
          /\ MapError(l, ParserError("YAMLException", file.rel))
          /\ UNCHANGED << alive, heap, configs, running, snap, dirty >>
     ELSE /\ fstate' = [fstate EXCEPT ![l][i] = "ok"]
          /\ fcb' = [fcb EXCEPT ![l][i] = Decoded(l, i)]
          /\ IF \A j \in 1..Len(fstate[l]) :
                   j # i => fstate[l][j] \in {"ok", "failed"}
             THEN AfterMap(l)
             ELSE UNCHANGED << alive, heap, configs, running, pc, snap, dirty >>
          /\ UNCHANGED cb
  /\ UNCHANGED << env, disk, store, held, opts, target, idx, lastWrite, left >>

\* the setImmediate callback of the parser of file i runs the decoder
ParseDone(l, i) ==
  /\ Idle
  /\ i \in 1..Len(fstate[l])
  /\ fstate[l][i] = "parsing"
  /\ LET file == Files(opts[l].dir)[i] IN
     IF file.k = "garbage"
     THEN /\ fstate' = [fstate EXCEPT ![l][i] = "failed"]
          /\ fcb' = [fcb EXCEPT ![l][i] =
                       [n |-> @.n + 1,
                        err |-> ParserError("YAMLException", file.rel)]]
          /\ MapError(l, ParserError("YAMLException", file.rel))
          /\ UNCHANGED << alive, heap, configs, running, snap, dirty >>
     ELSE /\ fstate' = [fstate EXCEPT ![l][i] = "ok"]
          /\ fcb' = [fcb EXCEPT ![l][i] = Decoded(l, i)]
          /\ IF \A j \in 1..Len(fstate[l]) : j # i => fstate[l][j] = "ok"
             THEN AfterMap(l)
             ELSE UNCHANGED << alive, heap, configs, running, pc, snap, dirty >>
          /\ UNCHANGED cb
  /\ UNCHANGED << env, disk, store, held, opts, target, idx, lastWrite, left >>

\* a stage 4 that fills the store without clearing it first
CommitStartNoClear(l) ==
  /\ alive
  /\ pc[l] = "commit" /\ idx[l] = 0
  /\ IF opts[l].dryRun
     THEN /\ heap' = Append(heap, EmptyMap)
          /\ target' = [target EXCEPT ![l] = Ref(Len(heap) + 1)]
          /\ UNCHANGED << store, dirty, lastWrite >>
     ELSE /\ target' = [target EXCEPT ![l] = store]
          /\ dirty' = Dirtied(l)
          /\ lastWrite' = l
          /\ UNCHANGED << heap, store >>
  /\ idx' = [idx EXCEPT ![l] = 1]
  /\ UNCHANGED << alive, env, disk, held, running, pc, opts, fstate, configs,
                  cb, snap, left, fcb >>

\* a stage 4 that calls clear() before it looks at dryRun
CommitStartAlwaysClears(l) ==
  /\ alive
  /\ pc[l] = "commit" /\ idx[l] = 0
  /\ IF opts[l].dryRun
     THEN /\ heap' = Append(deleteKeys(heap, store.v), EmptyMap)
          /\ target' = [target EXCEPT ![l] = Ref(Len(heap) + 1)]
          /\ UNCHANGED << store, dirty, lastWrite >>
     ELSE /\ LET r == clear(heap, store) IN
             /\ heap' = r.heap
             /\ store' = r.store
             /\ target' = [target EXCEPT ![l] = r.store]
          /\ dirty' = Dirtied(l)
          /\ lastWrite' = l
  /\ idx' = [idx EXCEPT ![l] = 1]
  /\ UNCHANGED << alive, env, disk, held, running, pc, opts, fstate, configs,
                  cb, snap, left, fcb >>

\* a stage 4 whose dry run writes into the store object instead of a new one
CommitStartDryIntoStore(l) ==
  /\ alive
  /\ pc[l] = "commit" /\ idx[l] = 0
  /\ IF opts[l].dryRun
     THEN /\ target' = [target EXCEPT ![l] = store]
          /\ UNCHANGED << heap, store, dirty, lastWrite >>
     ELSE /\ LET r == clear(heap, store) IN
             /\ heap' = r.heap
             /\ store' = r.store
             /\ target' = [target EXCEPT ![l] = r.store]
          /\ dirty' = Dirtied(l)
          /\ lastWrite' = l
  /\ idx' = [idx EXCEPT ![l] = 1]
  /\ UNCHANGED << alive, env, disk, held, running, pc, opts, fstate, configs,
                  cb, snap, left, fcb >>

\* a stage 4 that gives up the store when the store was written since the
\* load was called, and assembles its tree aside
CommitStartSkipsIfDirty(l) ==
  /\ alive
  /\ pc[l] = "commit" /\ idx[l] = 0
  /\ IF opts[l].dryRun \/ dirty[l]
     THEN /\ heap' = Append(heap, EmptyMap)
          /\ target' = [target EXCEPT ![l] = Ref(Len(heap) + 1)]
          /\ UNCHANGED << store, dirty, lastWrite >>
     ELSE /\ LET r == clear(heap, store) IN
             /\ heap' = r.heap
             /\ store' = r.store
             /\ target' = [target EXCEPT ![l] = r.store]
          /\ dirty' = Dirtied(l)
          /\ lastWrite' = l
  /\ idx' = [idx EXCEPT ![l] = 1]
  /\ UNCHANGED << alive, env, disk, held, running, pc, opts, fstate, configs,
                  cb, snap, left, fcb >>

\* a stage 4 that leaves the store alone when a load called later has
\* already filled it, and assembles its tree aside
CommitStartNewestWins(l) ==
  /\ alive
  /\ pc[l] = "commit" /\ idx[l] = 0
  /\ IF opts[l].dryRun
        \/ \E k \in Loads : k > l /\ pc[k] = "done" /\ ~opts[k].dryRun
     THEN /\ heap' = Append(heap, EmptyMap)
          /\ target' = [target EXCEPT ![l] = Ref(Len(heap) + 1)]
          /\ UNCHANGED << store, dirty, lastWrite >>
     ELSE /\ LET r == clear(heap, store) IN
             /\ heap' = r.heap
             /\ store' = r.store
             /\ target' = [target EXCEPT ![l] = r.store]
          /\ dirty' = Dirtied(l)
          /\ lastWrite' = l
  /\ idx' = [idx EXCEPT ![l] = 1]
  /\ UNCHANGED << alive, env, disk, held, running, pc, opts, fstate, configs,
                  cb, snap, left, fcb >>

\* stage 4 begins: a dry run creates testStore = {}, a real load calls clear()
CommitStart(l) ==
  /\ alive
  /\ pc[l] = "commit" /\ idx[l] = 0
  /\ IF opts[l].dryRun
     THEN /\ heap' = Append(heap, EmptyMap)
          /\ target' = [target EXCEPT ![l] = Ref(Len(heap) + 1)]
          /\ UNCHANGED << store, dirty, lastWrite >>
     ELSE /\ LET r == clear(heap, store) IN
             /\ heap' = r.heap
             /\ store' = r.store
             /\ target' = [target EXCEPT ![l] = r.store]
          /\ dirty' = Dirtied(l)
          /\ lastWrite' = l
  /\ idx' = [idx EXCEPT ![l] = 1]
  /\ UNCHANGED << alive, env, disk, held, running, pc, opts, fstate, configs,
                  cb, snap, left, fcb >>

RECURSIVE hasPath(_, _, _)
\* _.has(object, path)
hasPath(h, id, path) ==
  /\ Head(path) \in DOMAIN h[id]
  /\ \/ Len(path) = 1
     \/ /\ h[id][Head(path)].t = "ref"
        /\ hasPath(h, h[id][Head(path)].v, Tail(path))

\* a stage 4 that assigns an entry only where the target has no value yet
CommitSetKeepsFirst(l) ==
  /\ alive
  /\ pc[l] = "commit" /\ idx[l] \in 1..Len(configs[l])
  /\ LET config == configs[l][idx[l]]
     IN heap' = IF hasPath(heap, target[l].v, config.path) THEN heap
                ELSE baseSet(heap, target[l].v, config.path, config.value)
  /\ idx' = [idx EXCEPT ![l] = @ + 1]
  /\ UNCHANGED << alive, env, disk, store, held, running, pc, opts, fstate,
                  configs, target, cb, snap, dirty, lastWrite, left, fcb >>

\* stage 4, one round of its forEach: _.set(target, config.path, config.value)
CommitSet(l) ==
  /\ alive
  /\ pc[l] = "commit" /\ idx[l] \in 1..Len(configs[l])
  /\ LET config == configs[l][idx[l]]
     IN heap' = baseSet(heap, target[l].v, config.path, config.value)
  /\ idx' = [idx EXCEPT ![l] = @ + 1]
  /\ UNCHANGED << alive, env, disk, store, held, running, pc, opts, fstate,
                  configs, target, cb, snap, dirty, lastWrite, left, fcb >>

\* a stage 4 that ends with next(null): the callback gets no tree
CommitEndNoResult(l) ==
  /\ alive
  /\ pc[l] = "commit" /\ idx[l] = Len(configs[l]) + 1
  /\ cb' = [cb EXCEPT ![l] = [n |-> @.n + 1, err |-> NoError, res |-> Undef]]
  /\ pc' = [pc EXCEPT ![l] = "done"]
  /\ running' = 0
  /\ Forget(l)
  /\ left' = [left EXCEPT ![l] = Tree(heap, target[l])]
  /\ UNCHANGED << alive, env, disk, heap, store, held, opts, fstate, configs,
                  target, idx, lastWrite, fcb >>

\* stage 4 ends: next(null, target), the waterfall calls done(null, target)
CommitEnd(l) ==
  /\ alive
  /\ pc[l] = "commit" /\ idx[l] = Len(configs[l]) + 1
  /\ cb' = [cb EXCEPT ![l] = [n |-> @.n + 1, err |-> NoError, res |-> target[l]]]
  /\ pc' = [pc EXCEPT ![l] = "done"]
  /\ running' = 0
  /\ Forget(l)
  /\ left' = [left EXCEPT ![l] = Tree(heap, target[l])]
  /\ UNCHANGED << alive, env, disk, heap, store, held, opts, fstate, configs,
                  target, idx, lastWrite, fcb >>

Next ==
  \/ Clear
  \/ \E l \in Loads, dir \in disk, dryRun \in BOOLEAN : Load(l, dir, dryRun)
  \/ \E l \in Loads : ListDone(l)
  \/ \E l \in Loads : ListFail(l)
  \/ \E l \in Loads : \E i \in DOMAIN fstate[l] : ReadDone(l, i)
  \/ \E l \in Loads : \E i \in DOMAIN fstate[l] : ParseDone(l, i)
  \/ \E l \in Loads : CommitStart(l)
  \/ \E l \in Loads : CommitSet(l)
  \/ \E l \in Loads : CommitEnd(l)

Spec == Init /\ [][Next]_vars

SpecFail == InitFail /\ [][Next]_vars

SpecPaths == InitPaths /\ [][Next]_vars

SpecTree == InitTree /\ [][Next]_vars

SpecNest == InitNest /\ [][Next]_vars

(***************************************************************************)
(* What a load is expected to produce, stated on trees alone: the batch of *)
(* resolved entries applied, in discovery order, to an empty tree.         *)
(***************************************************************************)
RECURSIVE AssignAt(_, _, _)
AssignAt(tree, path, val) ==
  LET k == Head(path) IN
  IF Len(path) = 1 THEN Obj(Put(tree.v, k, val))
  ELSE LET sub == IF k \in DOMAIN tree.v /\ tree.v[k].t = "obj"
                  THEN tree.v[k] ELSE EmptyObj
       IN Obj(Put(tree.v, k, AssignAt(sub, Tail(path), val)))

RECURSIVE BatchOnto(_, _, _, _)
BatchOnto(tree, files, o, i) ==
  IF i > Len(files) THEN tree
  ELSE BatchOnto(AssignAt(tree, toDotPath(files[i].rel, "undefined"),
                          merge(GetProp(files[i].v, o.defaultProfile),
                                GetProp(files[i].v, o.profile))),
                 files, o, i + 1)

\* the complete output of a load called with options o
Output(o) == BatchOnto(EmptyObj, Files(o.dir), o, 1)

\* load l is a real (non-dry-run) load that has completed successfully
Committed(l) == pc[l] = "done" /\ ~opts[l].dryRun

(***************************************************************************)
(* C1  Whenever code other than a load's stage 4 can run (no load holds    *)
(* the thread), the store is empty or deep-equal to the complete output of *)
(* one successful real load: never a mix of two loads, never a part of one *)
(***************************************************************************)
C1_StoreIsOneLoadsOutput ==
  running = 0 =>
    \/ StoreTree = EmptyObj
    \/ \E l \in Loads : Committed(l) /\ StoreTree = Output(opts[l])

\* two overlapping real loads with different non-empty outputs have both
\* committed, and the store shows one of them
C1_Witness ==
  /\ running = 0
  /\ \E l, k \in Loads :
       /\ l # k /\ Committed(l) /\ Committed(k)
       /\ Output(opts[l]) # Output(opts[k])
       /\ Output(opts[k]) # EmptyObj
       /\ StoreTree = Output(opts[l]) /\ StoreTree # EmptyObj

(***************************************************************************)
(* C2  From the clear() that opens a load's stage 4 to its last nested     *)
(* assignment, every step taken is the next step of that same stage 4: no  *)
(* step of another load and no explicit clear() comes in between           *)
(***************************************************************************)
C2_CommitNotInterleaved ==
  [][\A l \in Loads :
       (pc[l] = "commit" /\ idx[l] >= 1) =>
          \/ idx'[l] = idx[l] + 1 /\ pc'[l] = "commit"
          \/ idx[l] = Len(configs[l]) + 1 /\ pc'[l] = "done"]_vars

\* a real load is between two assignments of its stage 4 while another
\* load has a callback pending
C2_Witness ==
  \E l, k \in Loads :
    /\ l # k
    /\ pc[l] = "commit" /\ ~opts[l].dryRun /\ idx[l] = 2 /\ Len(configs[l]) = 2
    /\ pc[k] = "loading" /\ ~opts[k].dryRun

(***************************************************************************)
(* C3  The module's store binding never changes: the reference a client    *)
(* took before any load is the module's store, and through it the client   *)
(* sees the output of the latest committed load                            *)
(***************************************************************************)
C3_StoreIdentityKept ==
  /\ held = store
  /\ running = 0 =>
       Tree(heap, held) = IF lastWrite = 0 THEN EmptyObj
                          ELSE Output(opts[lastWrite])

\* after a reload: two real loads committed, the held reference shows the
\* second one's output
C3_Witness ==
  /\ running = 0 /\ lastWrite # 0
  /\ \E k \in Loads :
       /\ k # lastWrite /\ Committed(k) /\ Committed(lastWrite)
       /\ Output(opts[k]) # Output(opts[lastWrite])
  /\ Tree(heap, held) = Output(opts[lastWrite])
  /\ Tree(heap, held) # EmptyObj

(***************************************************************************)
(* C4  When a real load completes successfully, the store deep-equals that *)
(* load's entries applied to an empty tree, whatever it held before        *)
(***************************************************************************)
C4_CommitReplacesContents ==
  [][\A l \in Loads :
       (pc[l] = "commit" /\ pc'[l] = "done" /\ ~opts[l].dryRun) =>
          Tree(heap', store') = Output(opts[l])]_vars

\* a real load has completed over the output of an earlier one that had a
\* top-level key the new load does not produce
C4_Witness ==
  /\ running = 0 /\ lastWrite # 0 /\ Committed(lastWrite)
  /\ \E k \in Loads :
       /\ k # lastWrite /\ Committed(k)
       /\ \E key \in DOMAIN Output(opts[k]).v : key \notin DOMAIN StoreTree.v
  /\ StoreTree # EmptyObj

(***************************************************************************)
(* C5  A real load that fails before stage 4 (a file cannot be read or     *)
(* does not parse) has run no clear() and written no entry: unless clear() *)
(* or another load wrote meanwhile, the store deep-equals what it was when *)
(* load() was called                                                       *)
(***************************************************************************)
C5_FailedLoadLeavesStore ==
  \A l \in Loads :
    (pc[l] = "failed" /\ ~opts[l].dryRun) =>
       /\ cb[l].n = 1 /\ cb[l].err # NoError
       /\ idx[l] = 0 /\ lastWrite # l
       /\ ~dirty[l] => StoreTree = snap[l]

\* one of two files failed to parse, the callback has the error, and the
\* store still holds the earlier load's output
C5_Witness ==
  \E l \in Loads :
    /\ pc[l] = "failed" /\ ~opts[l].dryRun /\ ~dirty[l]
    /\ Len(fstate[l]) = 2 /\ cb[l].n = 1
    /\ snap[l] # EmptyObj /\ StoreTree = snap[l]

\* load l takes a step
StepOf(l) == << pc[l], fstate[l], idx[l] >> # << pc'[l], fstate'[l], idx'[l] >>

(***************************************************************************)
(* C6  No step of a dry-run load, from the call to the callback, changes   *)
(* what the store holds, and none runs clear() on the store                *)
(***************************************************************************)
C6_DryRunNeverWrites ==
  [][\A l \in Loads :
       (opts'[l].dryRun /\ StepOf(l)) =>
          /\ Tree(heap', store') = StoreTree
          /\ heap'[store.v] = heap[store.v]
          /\ lastWrite' = lastWrite]_vars

\* a dry run of different content has completed over a loaded store
C6_Witness ==
  \E l \in Loads :
    /\ pc[l] = "done" /\ opts[l].dryRun
    /\ StoreTree # EmptyObj
    /\ Tree(heap, cb[l].res) # EmptyObj
    /\ Tree(heap, cb[l].res) # StoreTree

(***************************************************************************)
(* C7  The tree a dry run hands to the callback is deep-equal to the store *)
(* a real load of the same files leaves, it is an object of its own that   *)
(* shares nothing with the store, and nothing done to the store later      *)
(* changes it                                                              *)
(***************************************************************************)
C7_DryRunTreeIndependent ==
  \A l \in Loads :
    (pc[l] = "done" /\ opts[l].dryRun) =>
       /\ cb[l].res.t = "ref" /\ cb[l].res # store
       /\ Reach(heap, cb[l].res) \cap Reach(heap, store) = {}
       /\ Tree(heap, cb[l].res) = Output(opts[l])
       /\ \A k \in Loads :
            (Committed(k) /\ opts[k].dir = opts[l].dir /\ lastWrite = k
                /\ running = 0) => Tree(heap, cb[l].res) = StoreTree

\* a dry run and a real load of the same directory have both completed:
\* two distinct objects with the same non-empty contents
C7_Witness ==
  \E l, k \in Loads :
    /\ pc[l] = "done" /\ opts[l].dryRun
    /\ Committed(k) /\ opts[k].dir = opts[l].dir /\ lastWrite = k
    /\ running = 0
    /\ cb[l].res # store
    /\ Tree(heap, cb[l].res) = StoreTree /\ StoreTree # EmptyObj

C9_ListingFailureReported ==
  \A l \in Loads :
    (pc[l] \notin {"idle", "listing"} /\ ~Listable(opts[l].dir)) =>
       /\ cb[l].n = 1 /\ cb[l].err # NoError /\ cb[l].res = Undef
       /\ alive

\* load l has a callback of the event loop still to come
Pending(l) ==
  \/ pc[l] \in {"listing", "commit"}
  \/ \E i \in DOMAIN fstate[l] : fstate[l][i] \in {"reading", "parsing"}

(***************************************************************************)
(* C10 (as claimed) A load that was called and has no I/O or parser        *)
(* callback left to come has invoked its completion callback (stated for   *)
(* the loads whose directory can be listed; the others are C9's)           *)
(***************************************************************************)
C10_LoadCallsBack ==
  \A l \in Loads :
    (pc[l] # "idle" /\ Listable(opts[l].dir) /\ ~Pending(l)) => cb[l].n >= 1

AllDecode(dir) ==
  Listable(dir) /\ \A i \in DOMAIN Files(dir) : Files(dir)[i].k = "doc"

(***************************************************************************)
(* C12 (as claimed) A load whose files all decode, whatever the decoded    *)
(* values are (an empty or null document included), succeeds; the value it *)
(* resolves for a file without the active profile is the default section,  *)
(* and an empty object for a file with neither profile                     *)
(***************************************************************************)
C12_DecodedFilesLoad ==
  \A l \in Loads :
    (pc[l] # "idle" /\ AllDecode(opts[l].dir) /\ ~Pending(l)) =>
       /\ pc[l] = "done" /\ cb[l].n = 1 /\ cb[l].err = NoError
       /\ \A i \in DOMAIN Files(opts[l].dir) :
            LET value == Files(opts[l].dir)[i].v
                defaultValue == GetProp(value, opts[l].defaultProfile)
                specificValue == GetProp(value, opts[l].profile)
            IN specificValue = Undef =>
                 Tree(heap, configs[l][i].value) =
                   IF defaultValue = Undef THEN EmptyObj ELSE defaultValue

RECURSIVE Override(_, _)
\* the recursive merge the profile resolution is to compute: mappings are
\* merged key by key, anything else is replaced by the active value
Override(defaultValue, specificValue) ==
  IF defaultValue.t = "obj" /\ specificValue.t = "obj"
  THEN Obj([k \in (DOMAIN defaultValue.v) \cup (DOMAIN specificValue.v) |->
              IF k \notin DOMAIN specificValue.v THEN defaultValue.v[k]
              ELSE IF k \notin DOMAIN defaultValue.v THEN specificValue.v[k]
              ELSE Override(defaultValue.v[k], specificValue.v[k])])
  ELSE specificValue

(***************************************************************************)
(* C13 (as claimed) For every file of a finished load whose profile        *)
(* sections are mappings, the resolved value is the recursive merge of the *)
(* default section and the active section (keys of either kept, a key of   *)
(* both taking the active value at any depth), and the default section     *)
(* itself when the file has no active section                              *)
(***************************************************************************)
C13_ResolvedIsRecursiveMerge ==
  \A l \in Loads :
    pc[l] = "done" =>
      \A i \in DOMAIN Files(opts[l].dir) :
        LET value == Files(opts[l].dir)[i].v
            defaultValue == GetProp(value, opts[l].defaultProfile)
            specificValue == GetProp(value, opts[l].profile)
        IN (defaultValue.t = "obj" /\ specificValue.t \in {"obj", "undef"}) =>
              Tree(heap, configs[l][i].value) =
                IF specificValue = Undef THEN defaultValue
                ELSE Override(defaultValue, specificValue)

(***************************************************************************)
(* C14 (as claimed) Where the default and the active section of a file     *)
(* both hold a sequence under the same key, the resolved value holds       *)
(* exactly the active sequence under that key                              *)
(***************************************************************************)
C14_SequenceReplacedWhole ==
  \A l \in Loads :
    pc[l] = "done" =>
      \A i \in DOMAIN Files(opts[l].dir) :
        LET value == Files(opts[l].dir)[i].v
            defaultValue == GetProp(value, opts[l].defaultProfile)
            specificValue == GetProp(value, opts[l].profile)
        IN (defaultValue.t = "obj" /\ specificValue.t = "obj") =>
              \A k \in (DOMAIN defaultValue.v) \cap (DOMAIN specificValue.v) :
                 (defaultValue.v[k].t = "arr" /\ specificValue.v[k].t = "arr") =>
                    Tree(heap, configs[l][i].value).v[k] = specificValue.v[k]

(***************************************************************************)
(* C15 (as claimed) Every segment of the dotted path of every entry of a   *)
(* load is the configured normalizer applied to the directory or file name *)
(* at that place: the pathNormalizer the caller passed, camel-case when    *)
(* the caller passed none                                                  *)
(***************************************************************************)
C15_SegmentsUseGivenNormalizer ==
  \A l \in Loads :
    pc[l] \in {"commit", "done"} =>
      \A i \in DOMAIN configs[l] :
        LET rel == Files(opts[l].dir)[i].rel
            configured == IF opts[l].pathNormalizer = "undefined"
                          THEN "camelCase" ELSE opts[l].pathNormalizer
        IN configs[l][i].path =
             [j \in 1..Len(rel) |-> normalize(configured, rel[j])]

RECURSIVE At(_, _)
\* what a tree holds under a sequence of keys (Undef when a level is missing)
At(tree, path) ==
  IF path = << >> THEN tree
  ELSE IF tree.t = "obj" /\ Head(path) \in DOMAIN tree.v
       THEN At(tree.v[Head(path)], Tail(path))
       ELSE Undef

\* sequence p is the beginning of sequence q, or q itself
IsPrefix(p, q) == Len(p) <= Len(q) /\ SubSeq(q, 1, Len(p)) = p

\* the store is as real load l left it
StoreLeftBy(l) == Committed(l) /\ lastWrite = l /\ running = 0

SharedPath(l, i) ==
  \E j \in DOMAIN configs[l] :
    /\ j # i
    /\ \/ IsPrefix(configs[l][i].path, configs[l][j].path)
       \/ IsPrefix(configs[l][j].path, configs[l][i].path)

C17_ReloadIsIdempotent ==
  \A l, k \in Loads :
    (Committed(l) /\ Committed(k) /\ opts[l] = opts[k]) => left[l] = left[k]

\* the same directory of two files, whose paths collide, was loaded twice;
\* both loads have finished and the store holds the tree the first one left
C17_Witness ==
  \E l, k \in Loads :
    /\ l < k /\ Committed(l) /\ Committed(k) /\ opts[l] = opts[k]
    /\ Len(configs[l]) = 2 /\ left[l] # EmptyObj
    /\ configs[l][1].path = configs[l][2].path
    /\ StoreLeftBy(k) /\ StoreTree = left[l]

(***************************************************************************)
(* C18 A load whose listing holds no file goes from the listing straight   *)
(* to stage 4 and calls back with a null error: a real load with the       *)
(* store, which it leaves empty whatever it held; a dry run with an empty  *)
(* tree of its own, the store staying as it was                            *)
(***************************************************************************)
C18_EmptyDirectoryLoads ==
  [][\A l \in Loads :
       ( /\ pc[l] \in {"listing", "commit"} /\ pc'[l] # pc[l]
         /\ Listable(opts[l].dir) /\ Files(opts[l].dir) = << >> ) =>
          /\ pc[l] = "listing" => pc'[l] = "commit"
          /\ pc[l] = "commit" =>
               /\ pc'[l] = "done"
               /\ cb'[l].n = 1 /\ cb'[l].err = NoError
               /\ Tree(heap', cb'[l].res) = EmptyObj
               /\ IF opts[l].dryRun
                  THEN /\ cb'[l].res # store'
                       /\ Tree(heap', store') = StoreTree
                       /\ ~dirty[l] => Tree(heap', store') = snap[l]
                  ELSE /\ cb'[l].res = store'
                       /\ Tree(heap', store') = EmptyObj]_vars

\* a real load of a directory without files has emptied the store that an
\* earlier load had filled
C18_Witness ==
  \E l, k \in Loads :
    /\ k < l /\ Committed(k) /\ left[k] # EmptyObj
    /\ StoreLeftBy(l) /\ Listable(opts[l].dir) /\ Files(opts[l].dir) = << >>
    /\ cb[l].err = NoError /\ StoreTree = EmptyObj

\* object id was complete before the code that now holds the thread began:
\* it is not one that the running load's stages 3 and 4 created
Settled(id) ==
  \/ running = 0
  \/ configs[running] = << >>
  \/ id < configs[running][1].value.v

(***************************************************************************)
(* C19 No load and no clear() ever changes an object other than the store  *)
(* object itself once the load that created it has finished: the object a  *)
(* client reached through the store (store.mongo) before a reload keeps    *)
(* its keys and values for ever, whatever the store shows later            *)
(***************************************************************************)
C19_NestedValueNeverMutated ==
  [][/\ Len(heap') >= Len(heap)
     /\ \A id \in DOMAIN heap :
          (id # store.v /\ Settled(id)) => heap'[id] = heap[id]]_vars

\* the value an earlier load had put in the store is no longer part of the
\* store, which shows a later load's values, and still holds what it held
C19_Witness ==
  \E l, k \in Loads :
    /\ l # k /\ Committed(k) /\ StoreLeftBy(l) /\ StoreTree # EmptyObj
    /\ \E i \in DOMAIN configs[k] :
         LET file == Files(opts[k].dir)[i]
             old == configs[k][i].value
         IN /\ old.v \notin Reach(heap, store)
            /\ Tree(heap, old) # EmptyObj
            /\ Tree(heap, old) = merge(GetProp(file.v, opts[k].defaultProfile),
                                       GetProp(file.v, opts[k].profile))
            /\ At(StoreTree, configs[k][i].path) # Tree(heap, old)

(***************************************************************************)
(* C20 clear() can be called whenever client code runs, loads pending or   *)
(* not; the step it takes (the only step that is no step of a load) leaves *)
(* the store binding on the same object, that object without any key,      *)
(* every other object (a dry-run tree among them) as it was, and every     *)
(* load where it stood, with its options, results and callback untouched   *)
(***************************************************************************)
C20_ClearEmptiesStoreOnly ==
  /\ [](Idle => ENABLED Clear)
  /\ [][(\A l \in Loads : ~StepOf(l)) =>
          /\ store' = store /\ held' = held
          /\ heap' = [heap EXCEPT ![store.v] = EmptyMap]
          /\ Tree(heap', store') = EmptyObj
          /\ UNCHANGED << alive, running, opts, configs, target, cb, left >>]_vars

\* clear() has emptied a store that a load had filled, while another load
\* is still reading its files
C20_Witness ==
  \E l, k \in Loads :
    /\ Committed(l) /\ left[l] # EmptyObj
    /\ pc[k] = "loading" /\ dirty[k]
    /\ lastWrite = 0 /\ StoreTree = EmptyObj /\ running = 0

(***************************************************************************)
(* C21 The stages of a load run in order: no file is read before the       *)
(* listing is in, and the load has resolved profiles, begun stage 4 or     *)
(* written the store only when every discovered file has been read and     *)
(* decoded; no store write of a load precedes the end of any of its parses *)
(***************************************************************************)
C21_StagesInOrder ==
  \A l \in Loads :
    /\ pc[l] \in {"idle", "listing"} =>
         fstate[l] = << >> /\ configs[l] = << >> /\ idx[l] = 0
    /\ pc[l] \in {"loading", "failed"} =>
         configs[l] = << >> /\ idx[l] = 0 /\ target[l] = Undef
    /\ (configs[l] # << >> \/ idx[l] >= 1 \/ lastWrite = l) =>
         /\ pc[l] \in {"commit", "done"}
         /\ Len(fstate[l]) = Len(Files(opts[l].dir))
         /\ Len(configs[l]) = Len(Files(opts[l].dir))
         /\ \A i \in DOMAIN fstate[l] : fstate[l][i] = "ok"

\* a real load of two files has cleared the store and is about to assign
\* its first entry: both files have been decoded
C21_Witness ==
  \E l \in Loads :
    /\ pc[l] = "commit" /\ idx[l] = 1 /\ ~opts[l].dryRun /\ lastWrite = l
    /\ Len(fstate[l]) = 2 /\ \A i \in DOMAIN fstate[l] : fstate[l][i] = "ok"

\* the value the profile stage resolves for file i of load l
Resolved(l, i) ==
  LET value == Files(opts[l].dir)[i].v
  IN merge(GetProp(value, opts[l].defaultProfile), GetProp(value, opts[l].profile))

\* entry i of load l has the path of no other entry's beginning or extension
NoNesting(l, i) ==
  \A j \in DOMAIN configs[l] :
    configs[l][j].path # configs[l][i].path =>
      /\ ~IsPrefix(configs[l][i].path, configs[l][j].path)
      /\ ~IsPrefix(configs[l][j].path, configs[l][i].path)

(***************************************************************************)
(* C22 When several files of a finished load have the same dotted path,    *)
(* the tree the load left holds at that path the value of the one that     *)
(* comes last in discovery order, in whatever order the reads and parses   *)
(* of the files completed                                                  *)
(***************************************************************************)
C22_LaterFileWins ==
  \A l \in Loads :
    pc[l] = "done" =>
      \A i, j \in DOMAIN configs[l] :
        ( /\ i < j /\ configs[l][i].path = configs[l][j].path
          /\ \A k \in DOMAIN configs[l] :
                k > j => configs[l][k].path # configs[l][j].path
          /\ NoNesting(l, j) ) =>
            At(left[l], configs[l][j].path) = Resolved(l, j)

\* a load of two files with one dotted path and different values has
\* finished: the tree holds the second file's value, not the first's
C22_Witness ==
  \E l \in Loads :
    /\ pc[l] = "done" /\ Len(configs[l]) = 2
    /\ configs[l][1].path = configs[l][2].path
    /\ Resolved(l, 1) # Resolved(l, 2)
    /\ At(left[l], configs[l][2].path) = Resolved(l, 2)

\* entries p and q of load l are a file and a file of the directory of the
\* same name (q's path is p's path and one key more), and no other entry
\* of the load has a path that overlaps theirs
FileAndDirectory(l, p, q) ==
  /\ Len(configs[l][q].path) = Len(configs[l][p].path) + 1
  /\ IsPrefix(configs[l][p].path, configs[l][q].path)
  /\ \A r \in DOMAIN configs[l] \ {p, q} :
       /\ ~IsPrefix(configs[l][r].path, configs[l][q].path)
       /\ ~IsPrefix(configs[l][p].path, configs[l][r].path)

(***************************************************************************)
(* C23 When the path P of one entry of a finished load is the path P.k of  *)
(* another less its last key, the tree the load left holds at P: P's value *)
(* with key k set to the other entry's value (P's other keys kept) when    *)
(* the P entry comes first in discovery order, and exactly P's value, the  *)
(* other entry's value gone, when the P.k entry comes first                *)
(***************************************************************************)
C23_PrefixPathsAssignedInOrder ==
  \A l \in Loads :
    pc[l] = "done" =>
      \A p, q \in DOMAIN configs[l] :
        FileAndDirectory(l, p, q) =>
          LET P == configs[l][p].path
              k == configs[l][q].path[Len(P) + 1]
          IN At(left[l], P) =
               IF p < q THEN Obj(Put(Resolved(l, p).v, k, Resolved(l, q)))
               ELSE Resolved(l, p)

\* two loads have finished, each over a file and a directory of the same
\* name: in one the file came first and its value has the directory's file
\* as a key more, in the other the file came last and its value stands alone
C23_Witness ==
  \E l, m \in Loads :
    /\ pc[l] = "done" /\ pc[m] = "done"
    /\ FileAndDirectory(l, 1, 2) /\ FileAndDirectory(m, 2, 1)
    /\ At(left[l], configs[l][2].path) = Resolved(l, 2)
    /\ At(left[l], configs[l][1].path) # Resolved(l, 1)
    /\ At(left[m], configs[m][1].path) = Undef
    /\ At(left[m], configs[m][2].path) = Resolved(m, 2)

(***************************************************************************)
(* C24 (as claimed) A ParserError is made only for a file whose content    *)
(* the decoder rejected, and it names that file: neither the callback      *)
(* given to the parser nor the completion callback ever receives a         *)
(* ParserError for a file that decoded                                     *)
(***************************************************************************)
C24_ParserErrorOnlyForDecodeFailure ==
  \A l \in Loads :
    /\ \A i \in DOMAIN fcb[l] :
         fcb[l][i].err.kind = "ParserError" =>
           /\ Files(opts[l].dir)[i].k = "garbage"
           /\ fcb[l][i].err.file = Files(opts[l].dir)[i].rel
    /\ cb[l].err.kind = "ParserError" =>
         \E i \in DOMAIN fcb[l] :
           /\ Files(opts[l].dir)[i].k = "garbage"
           /\ cb[l].err.file = Files(opts[l].dir)[i].rel

(***************************************************************************)
(* C25 (as claimed) The completion callback of a load is called at most    *)
(* once, and the callback the load gives to the parser is called at most   *)
(* once for each file                                                      *)
(***************************************************************************)
C25_CallbacksAtMostOnce ==
  \A l \in Loads :
    /\ cb[l].n <= 1
    /\ \A i \in DOMAIN fcb[l] : fcb[l][i].n <= 1

\* stage 3 of load l ran after stage 3 of load k, that is, the last file of
\* l was decoded after the last file of k: the objects stage 3 creates are
\* numbered in the order they are created
RanAfter(l, k) ==
  /\ configs[l] # << >> /\ configs[k] # << >>
  /\ configs[l][1].value.v > configs[k][1].value.v

(***************************************************************************)
(* C26 Of two real loads that both succeeded, the one whose last file was  *)
(* decoded later is the one whose stage 4 ran last, whichever was called   *)
(* first: the store never shows the other one's output after both have     *)
(* finished, and shows the later one's complete output while nothing else  *)
(* has written                                                             *)
(***************************************************************************)
C26_LastCommitWins ==
  \A l, k \in Loads :
    (l # k /\ Committed(l) /\ Committed(k) /\ RanAfter(l, k)) =>
       /\ lastWrite # k
       /\ (lastWrite = l /\ running = 0) =>
            StoreTree = Output(opts[l]) /\ StoreTree = left[l]

\* the load called first finished last: the store holds its output, not the
\* output of the load called after it
C26_Witness ==
  \E l, k \in Loads :
    /\ l < k /\ Committed(l) /\ Committed(k) /\ RanAfter(l, k)
    /\ lastWrite = l /\ running = 0
    /\ StoreTree = Output(opts[l]) /\ StoreTree # Output(opts[k])
    /\ left[k] = Output(opts[k]) /\ left[k] # EmptyObj

(***************************************************************************)
(* C27 A load whose callback has received the error of one of its files    *)
(* stays as it is: no later step, and in particular no later completion of *)
(* the read or the parse of another of its files, runs stage 3 or stage 4  *)
(* for it, changes the store or any object, or calls its callback again    *)
(***************************************************************************)
C27_FailedLoadStaysFailed ==
  [][\A l \in Loads :
       pc[l] = "failed" =>
         /\ pc'[l] = "failed"
         /\ cb[l].n = 1 /\ cb'[l] = cb[l]
         /\ configs[l] = << >> /\ configs'[l] = << >>
         /\ idx[l] = 0 /\ idx'[l] = 0
         /\ fstate'[l] # fstate[l] =>
              /\ heap' = heap /\ store' = store
              /\ lastWrite' = lastWrite /\ running' = running]_vars

\* conf6 failed to decode and the callback got its error; the read of conf5
\* failed after that, and the callback still has the one call
C27_Witness ==
  \E l \in Loads :
    /\ pc[l] = "failed" /\ opts[l].dir = "locked"
    /\ fstate[l] = << "failed", "failed" >>
    /\ fcb[l][1] = [n |-> 1, err |-> ReadError(<< "conf5" >>)]
    /\ cb[l].n = 1
    /\ cb[l].err = ParserError("YAMLException", << "conf6" >>)

(***************************************************************************)
(* C28 A real load during which the store was written, by clear() in       *)
(* particular, ends as any other: at its callback the store holds its      *)
(* complete output, which depends on its files and options alone, and the  *)
(* callback gets the store, without error, once                            *)
(***************************************************************************)
C28_ClearDuringLoadIsHarmless ==
  [][\A l \in Loads :
       (pc[l] = "commit" /\ pc'[l] = "done" /\ dirty[l] /\ ~opts[l].dryRun) =>
          /\ store' = store
          /\ Tree(heap', store') = Output(opts[l])
          /\ left'[l] = Output(opts[l])
          /\ cb'[l] = [n |-> 1, err |-> NoError, res |-> store]]_vars

\* load k had filled the store when load l was called; the store was
\* written while l was in flight, and k being done and no other load called,
\* by clear(); stage 4 of l has now assigned its last entry
C28_Witness ==
  \E l, k \in Loads :
    /\ l # k /\ Committed(k) /\ left[k] # EmptyObj
    /\ \A m \in Loads \ {l, k} : pc[m] = "idle"
    /\ pc[l] = "commit" /\ idx[l] = Len(configs[l]) + 1
    /\ ~opts[l].dryRun /\ dirty[l]
    /\ snap[l] = left[k]
    /\ StoreTree = Output(opts[l]) /\ StoreTree # left[k]
====
